---- MODULE Spec2Model ----
(***************************************************************************)
(* abolish-vue: reactive validation binders (vRef, vReactive, rCheck,      *)
(* rCheckOnly, rTest) and the AbolishPlugin installer.                      *)
(*                                                                         *)
(* The binders are modelled on top of the two collaborators they call:     *)
(*  - vue's watch(): a change of the source queues the watcher's job; the   *)
(*    job runs at the next flush and calls the callback with the current    *)
(*    value (for a ref or getter only if it differs from the value seen     *)
(*    last, for a reactive object always); immediate:true runs the job      *)
(*    synchronously inside watch().                                         *)
(*  - @vueuse/core's watchDebounced(): the same watcher whose callback is   *)
(*    wrapped in a trailing-edge debounce filter: every invocation of the   *)
(*    callback (the immediate one included) restarts one timer, and the     *)
(*    wrapped function runs with the arguments of the last invocation       *)
(*    when the timer expires.                                               *)
(*  - the abolish engine: check/validate/test and their Async forms, pure   *)
(*    functions of the value and the rule.                                  *)
(***************************************************************************)
EXTENDS Integers, Sequences, FiniteSets, TLC

\* ------------------------------------------------------------------ bounds
\* source values are 0..MaxVal
MaxVal == 1
\* number of caller writes to the bound value in one behaviour
MaxChanges == 1
\* number of unit steps of the clock in one behaviour (jumps to the next
\* timer deadline are not limited)
MaxTicks == 1
\* the literal delay (time units) a caller passes as options.delay
ShortDelay == 2

\* watchDebounced's debounce when options.delay === true
DefaultDelay == 1000

Values == 0..MaxVal

Kinds == {"vRef", "vReactive", "rCheck", "rCheckOnly", "rTest"}

\* ------------------------------------------------------------------ values
\* JavaScript values that the observables hold, as tagged tuples.
Undefined == <<"undefined">>
\* what the engine returns in the error slot when the value passes
NoError == <<"false">>
ValidationError(v) == <<"error", v>>
\* the caller's unvalidated value, as ref(def) holds it
Raw(v) == <<"raw", v>>
\* ref({}) of vReactive
EmptyObject == <<"empty">>
\* what the engine returns in the result slot
Transformed(v) == <<"ok", v>>
Partial(v) == <<"partial", v>>

\* JavaScript truthiness of an error slot
Truthy(e) == e[1] = "error"

\* ------------------------------------------------------------------ engine
Engines == {"Abolish", "instance", "factory", "custom"}

\* The rule as each engine evaluates it. "Abolish" is the class used through
\* its static methods, "instance" a new Abolish() (same validators as the
\* class), "factory" and "custom" are caller-configured engines.
EngineFails(eng, v) ==
    CASE eng = "Abolish" -> v = 0
      [] eng = "instance" -> v = 0
      [] eng = "factory" -> v >= 2
      [] eng = "custom" -> v <= 1

\* check / checkAsync / validate / validateAsync: [error-or-false, result]
EngineCheck(eng, v) ==
    IF EngineFails(eng, v)
    THEN <<ValidationError(v), Partial(v)>>
    ELSE <<NoError, Transformed(v)>>

\* test / testAsync: boolean
EngineTest(eng, v) == ~EngineFails(eng, v)

\* ------------------------------------------------------------------ options
Absent == [tag |-> "absent", n |-> 0]
DelayTrue == [tag |-> "true", n |-> 0]
DelayNum(k) == [tag |-> "num", n |-> k]

DelayOptions == {Absent, DelayTrue, DelayNum(0), DelayNum(ShortDelay)}

Options ==
    [async : BOOLEAN,
     delay : DelayOptions,
     immediate : {"absent", "true", "false"},
     Abolish : {"absent", "custom"}]

\* `if (options.delay)`
DelayTruthy(d) == d.tag = "true" \/ (d.tag = "num" /\ d.n # 0)

\* variant: `debounce: options.delay`, the boolean passed on as it is and
\* coerced to a number by the timer
DebounceMs_Unconverted(d) == IF d.tag = "true" THEN 1 ELSE d.n

\* `debounce: options.delay === true ? 1000 : options.delay`
DebounceMs(d) == IF d.tag = "true" THEN DefaultDelay ELSE d.n

\* variant: `immediate: true`, whatever the option says
Immediate_Always(o) == TRUE

\* `immediate: options.immediate !== false`
Immediate(o) == o.immediate # "false"

\* `options.Abolish || inject("abolish", Abolish)`
ResolveEngine(o, ctx) ==
    IF o.Abolish # "absent" THEN o.Abolish
    ELSE IF ctx # "none" THEN ctx
    ELSE "Abolish"

\* ------------------------------------------------------------------ state
VARIABLES
    plugin,     \* AbolishPlugin.install: the options it got, what it called, whether it raised
    provided,   \* the application context under the key "abolish" ("none": not provided)
    active,     \* the binders that have been created (a set of Kinds)
    opts,       \* the options they were created with
    abolish,    \* the engine handle resolved at creation (`const abolish`)
    def,        \* the initial value they were created with
    source,     \* the current value of the bound observable (original / source)
    oldValue,   \* the value the watcher saw last (vue's watcher state)
    queued,     \* the watcher's job is queued for the next flush
    bnd,        \* per created binder: its refs, timer, promises in flight and call history
    nchanges,   \* caller writes so far
    ticks       \* unit clock steps so far

vars == <<plugin, provided, active, opts, abolish, def, source, oldValue, queued, bnd, nchanges, ticks>>

NoTimer == 0 - 1

\* variant: vRef's validated created empty (`ref()`), as rCheck creates it
NewBinder_ValidatedEmpty(kind, d) ==
    [error |-> Undefined,
     validated |-> IF kind = "vReactive" THEN EmptyObject ELSE Undefined,
     result |-> TRUE,
     timer |-> NoTimer,
     timerArg |-> 0,
     inflight |-> {},
     calls |-> <<>>,
     done |-> <<>>,
     burst |-> <<>>,
     idle |-> NoTimer]

\* The refs a binder creates, before its watcher is registered.
\*   error, validated, result : the refs (result is rTest's boolean ref)
\*   timer, timerArg          : the debounce filter's pending timer (time left) and
\*                              the arguments of the invocation it will run
\*   inflight                 : the engine promises not yet settled (indices of calls)
\*   calls                    : every engine call made, in order:
\*                              [eng, arg, notifs] with notifs the callback
\*                              invocations the call answers
\*   done                     : the calls whose result was written, in order of writing
\*   burst                    : callback invocations not yet answered by a call,
\*                              each [val, near]: the value passed and whether it
\*                              came less than the debounce delay after the one before
\*   idle                     : time since the callback was invoked last, up to the
\*                              debounce delay (NoTimer: never invoked)
NewBinder(kind, d) ==
    [error |-> Undefined,
     validated |-> CASE kind = "vRef" -> Raw(d)
                     [] kind = "vReactive" -> EmptyObject
                     [] OTHER -> Undefined,
     result |-> TRUE,
     timer |-> NoTimer,
     timerArg |-> 0,
     inflight |-> {},
     calls |-> <<>>,
     done |-> <<>>,
     burst |-> <<>>,
     idle |-> NoTimer]

\* ------------------------------------------------------------------ writes
\* variant: the engine's error slot stored as returned (`error.value = e`)
NormErr_AsReturned(e) == e

\* `error.value = e ? e : undefined`
NormErr(e) == IF Truthy(e) THEN e ELSE Undefined

\* variant: the guard of the validated write inverted (`if (e)`)
vRefThen_Inverted(s, out) ==
    [s EXCEPT !.error = IF Truthy(out[1]) THEN out[1] ELSE Undefined,
              !.validated = IF Truthy(out[1]) THEN out[2] ELSE @]

\* variant: validated written without the guard, as vReactive does
vRefThen_Unconditional(s, out) ==
    [s EXCEPT !.error = IF Truthy(out[1]) THEN out[1] ELSE Undefined,
              !.validated = out[2]]

\* variant: the guard reads the error ref as the previous run left it
\* (`if (!error.value)` ahead of the assignment to error)
vRefThen_StaleGuard(s, out) ==
    [s EXCEPT !.error = IF Truthy(out[1]) THEN out[1] ELSE Undefined,
              !.validated = IF ~Truthy(s.error) THEN out[2] ELSE @]

\* vRef: error.value = e ? e : undefined; if (!e) validated.value = r
vRefThen(s, out) ==
    [s EXCEPT !.error = NormErr(out[1]),
              !.validated = IF ~Truthy(out[1]) THEN out[2] ELSE @]

\* variant: validated kept when the engine reports an error, as vRef does
vReactiveThen_KeepOnFailure(s, out) ==
    [s EXCEPT !.error = IF Truthy(out[1]) THEN out[1] ELSE Undefined,
              !.validated = IF ~Truthy(out[1]) THEN out[2] ELSE @]

\* vReactive: error.value = e ? e : undefined; validated.value = r
vReactiveThen(s, out) ==
    [s EXCEPT !.error = NormErr(out[1]), !.validated = out[2]]

\* variant: validated kept when the engine reports an error, as vRef does
rCheckThen_KeepOnFailure(s, out) ==
    [s EXCEPT !.error = IF Truthy(out[1]) THEN out[1] ELSE Undefined,
              !.validated = IF ~Truthy(out[1]) THEN out[2] ELSE @]

\* variant: only error is written, as rCheckOnly does
rCheckThen_ErrorOnly(s, out) ==
    [s EXCEPT !.error = IF Truthy(out[1]) THEN out[1] ELSE Undefined]

\* rCheck: error.value = e ? e : undefined; validated.value = v
rCheckThen(s, out) ==
    [s EXCEPT !.error = NormErr(out[1]), !.validated = out[2]]

\* rCheckOnly: error.value = d[0] ? d[0] : undefined
rCheckOnlyThen(s, out) ==
    [s EXCEPT !.error = NormErr(out[1])]

\* variant: result only ever goes from true to false
rTestThen_Sticky(s, d) ==
    [s EXCEPT !.result = @ /\ d]

\* rTest: result.value = d
rTestThen(s, d) ==
    [s EXCEPT !.result = d]

\* What the engine method a binder calls returns for value v.
EngineOut(kind, eng, v) ==
    IF kind = "rTest" THEN EngineTest(eng, v) ELSE EngineCheck(eng, v)

\* variant: a sequence guard that drops the result of a call older than one
\* already written
Then_SequenceGuard(kind, s, out) ==
    IF \E j \in 1..(Len(s.done) - 1) : s.done[j] > s.done[Len(s.done)]
    THEN s
    ELSE CASE kind = "vRef" -> vRefThen(s, out)
           [] kind = "vReactive" -> vReactiveThen(s, out)
           [] kind = "rCheck" -> rCheckThen(s, out)
           [] kind = "rCheckOnly" -> rCheckOnlyThen(s, out)
           [] kind = "rTest" -> rTestThen(s, out)

\* The body of the binder's .then callback / of its synchronous branch after
\* the engine call returned `out`.
Then(kind, s, out) ==
    CASE kind = "vRef" -> vRefThen(s, out)
      [] kind = "vReactive" -> vReactiveThen(s, out)
      [] kind = "rCheck" -> rCheckThen(s, out)
      [] kind = "rCheckOnly" -> rCheckOnlyThen(s, out)
      [] kind = "rTest" -> rTestThen(s, out)

\* The engine each branch of watchFn calls. rCheckOnly's synchronous branch
\* calls the static Abolish.check, every other branch the resolved handle.
AsyncEngine(kind, handle) == handle
SyncEngine(kind, handle) == IF kind = "rCheckOnly" THEN "Abolish" ELSE handle

\* variant: the synchronous branch goes through a promise too, its write
\* happens when that promise resolves
watchFn_Deferred(kind, s, newVal, o, handle) ==
    LET eng == IF o.async THEN AsyncEngine(kind, handle) ELSE SyncEngine(kind, handle)
    IN  [s EXCEPT !.calls = Append(@, [eng |-> eng, arg |-> newVal, notifs |-> s.burst]),
                  !.burst = <<>>,
                  !.inflight = @ \cup {Len(s.calls) + 1}]

\* watchFn(newVal) of each binder
watchFn(kind, s, newVal, o, handle) ==
    LET idx == Len(s.calls) + 1
        eng == IF o.async THEN AsyncEngine(kind, handle) ELSE SyncEngine(kind, handle)
        called == [s EXCEPT !.calls = Append(@, [eng |-> eng, arg |-> newVal,
                                                    notifs |-> s.burst]),
                            !.burst = <<>>]
    IN  IF o.async
        THEN [called EXCEPT !.inflight = @ \cup {idx}]
        ELSE Then(kind, [called EXCEPT !.done = Append(@, idx)],
                  EngineOut(kind, eng, newVal))

\* variant: restarting the timer also abandons the calls in flight
debounceFilter_AbandonsInflight(s, newVal, ms) ==
    [s EXCEPT !.timer = ms, !.timerArg = newVal, !.inflight = {}]

\* variant: the timer is restarted but keeps the arguments of the first
\* invocation of the burst
debounceFilter_FirstArgs(s, newVal, ms) ==
    [s EXCEPT !.timer = ms, !.timerArg = IF s.timer >= 0 THEN @ ELSE newVal]

\* vueuse debounceFilter: clear the pending timer, start a new one that will
\* invoke the wrapped callback with this invocation's arguments.
debounceFilter(s, newVal, ms) ==
    [s EXCEPT !.timer = ms, !.timerArg = newVal]

\* The callback the watcher invokes: watchFn itself under watch(), watchFn
\* behind the debounce filter under watchDebounced().
Callback(kind, s, newVal, o, handle) ==
    LET near == s.idle >= 0 /\ s.idle < DebounceMs(o.delay)
        noted == [s EXCEPT !.burst = Append(@, [val |-> newVal, near |-> near]),
                           !.idle = 0]
    IN  IF DelayTruthy(o.delay)
        THEN debounceFilter(noted, newVal, DebounceMs(o.delay))
        ELSE watchFn(kind, noted, newVal, o, handle)

\* vue's watcher job: for a reactive object (deep) the callback always runs,
\* for a ref or getter only when the value differs from the one seen last.
JobRuns(kind, cur, old) == kind = "vReactive" \/ cur # old

\* ------------------------------------------------------------------ plugin
\* options.init / options.abolish of AbolishPlugin.install: not given, a
\* function that returns, a function that raises
Callbacks == {"absent", "returns", "raises"}
PluginOptions == [init : Callbacks, abolish : Callbacks]

\* app.use(AbolishPlugin, options) has not been called
NotInstalled ==
    [options |-> [init |-> "absent", abolish |-> "absent"], log |-> <<>>, raised |-> FALSE]

\* variant: the engine is obtained before init runs
install_EngineBeforeInit(o) ==
    LET engine == IF o.abolish # "absent" THEN "factory" ELSE "instance"
        obtained == IF o.abolish # "absent"
                    THEN <<<<"options.abolish", engine>>>>
                    ELSE <<<<"new Abolish", engine>>>>
        inited == IF o.init # "absent" THEN obtained \o <<<<"init">>>> ELSE obtained
    IN  IF o.abolish = "raises"
        THEN [log |-> obtained, raised |-> TRUE, provided |-> "none"]
        ELSE IF o.init = "raises"
        THEN [log |-> inited, raised |-> TRUE, provided |-> "none"]
        ELSE [log |-> inited \o <<<<"provide", engine>>>>, raised |-> FALSE,
              provided |-> engine]

\* variant: what init or the factory raises is caught, a new Abolish() stands
\* in for the engine of a factory that raised
install_CatchAll(o) ==
    LET inited == IF o.init # "absent" THEN <<<<"init">>>> ELSE <<>>
        engine == IF o.abolish = "returns" THEN "factory" ELSE "instance"
        obtained == inited \o (IF o.abolish = "absent" THEN <<>>
                                ELSE <<<<"options.abolish", "factory">>>>)
                           \o (IF o.abolish = "returns" THEN <<>>
                                ELSE <<<<"new Abolish", "instance">>>>)
    IN  [log |-> obtained \o <<<<"provide", engine>>>>, raised |-> FALSE,
         provided |-> engine]

\* The body of AbolishPlugin.install(app, options): the calls it makes in
\* order (init, then options.abolish() or new Abolish(), then app.provide),
\* whether an exception left it, and what the context holds afterwards.
\* Nothing is caught: a callback that raises ends the body there.
install(o) ==
    LET inited == IF o.init # "absent" THEN <<<<"init">>>> ELSE <<>>
        engine == IF o.abolish # "absent" THEN "factory" ELSE "instance"
        obtained == inited \o (IF o.abolish # "absent"
                                THEN <<<<"options.abolish", engine>>>>
                                ELSE <<<<"new Abolish", engine>>>>)
    IN  IF o.init = "raises"
        THEN [log |-> inited, raised |-> TRUE, provided |-> "none"]
        ELSE IF o.abolish = "raises"
        THEN [log |-> obtained, raised |-> TRUE, provided |-> "none"]
        ELSE [log |-> obtained \o <<<<"provide", engine>>>>, raised |-> FALSE,
              provided |-> engine]

\* ------------------------------------------------------------------ actions
DefaultOptions == [async |-> FALSE, delay |-> Absent, immediate |-> "absent",
                   Abolish |-> "absent"]

Init ==
    /\ plugin = NotInstalled
    /\ provided = "none"
    /\ active = {}
    /\ opts = DefaultOptions
    /\ abolish = "Abolish"
    /\ def = 0
    /\ source = 0
    /\ oldValue = 0
    /\ queued = FALSE
    /\ bnd = [k \in {} |-> NewBinder(k, 0)]
    /\ nchanges = 0
    /\ ticks = 0

\* app.use(AbolishPlugin, options), before any component is set up
Install(o) ==
    /\ active = {}
    /\ plugin = NotInstalled
    /\ plugin' = [options |-> o, log |-> install(o).log, raised |-> install(o).raised]
    /\ provided' = install(o).provided
    /\ UNCHANGED <<active, opts, abolish, def, source, oldValue, queued, bnd, nchanges, ticks>>

\* The binders created together on one source: any single binder, or rCheck
\* and rCheckOnly on the same source with the same rule and options.
Singles == {{k} : k \in Kinds}
Pairs == {{"rCheck", "rCheckOnly"}}

\* variant: the watcher is registered without `immediate`
Bind_NoImmediate(ks, o, d) ==
    /\ active = {}
    /\ ~plugin.raised
    /\ active' = ks
    /\ opts' = o
    /\ abolish' = ResolveEngine(o, provided)
    /\ def' = d
    /\ source' = d
    /\ oldValue' = d
    /\ queued' = FALSE
    /\ bnd' = [k \in ks |-> NewBinder(k, d)]
    /\ UNCHANGED <<plugin, provided, nchanges, ticks>>

\* vRef(def, rules, options) / vReactive(target, rules, options) /
\* rCheck, rCheckOnly, rTest(source, rule, options): resolve the engine,
\* create the refs, register the watcher; with immediate the watcher's
\* callback is invoked with the initial value inside the call.
\* An exception that left install left app.use() too: that application is
\* never mounted and none of its components is set up.
Bind(ks, o, d) ==
    /\ active = {}
    /\ ~plugin.raised
    /\ active' = ks
    /\ opts' = o
    /\ abolish' = ResolveEngine(o, provided)
    /\ def' = d
    /\ source' = d
    /\ oldValue' = d
    /\ queued' = FALSE
    /\ bnd' = [k \in ks |->
                 IF Immediate(o)
                 THEN Callback(k, NewBinder(k, d), d, o, ResolveEngine(o, provided))
                 ELSE NewBinder(k, d)]
    /\ UNCHANGED <<plugin, provided, nchanges, ticks>>

\* The caller (or a v-model input) writes the bound value: the watcher's job
\* is queued. Writing the value it already has triggers nothing. A timer that
\* is due expires before anything else happens.
Set(v) ==
    /\ active # {}
    /\ \A k \in active : bnd[k].timer # 0
    /\ nchanges < MaxChanges
    /\ v # source
    /\ source' = v
    /\ queued' = TRUE
    /\ nchanges' = nchanges + 1
    /\ UNCHANGED <<plugin, provided, active, opts, abolish, def, oldValue, bnd, ticks>>

\* vue flushes the queued watcher jobs: each runs its callback with the
\* current value.
Flush ==
    /\ queued
    /\ queued' = FALSE
    /\ oldValue' = source
    /\ bnd' = [k \in active |->
                 IF JobRuns(k, source, oldValue)
                 THEN Callback(k, bnd[k], source, opts, abolish)
                 ELSE bnd[k]]
    /\ UNCHANGED <<plugin, provided, active, opts, abolish, def, source, nchanges, ticks>>

Running == {k \in active : bnd[k].timer > 0}
MinLeft == CHOOSE m \in {bnd[k].timer : k \in Running} :
               \A k \in Running : m <= bnd[k].timer
AdvanceSteps == IF Running = {} THEN {} ELSE {1, MinLeft}

\* Time passes: by one unit, or up to the next timer deadline. A timer
\* callback is a task of its own, so the queued jobs are flushed first.
Advance(d) ==
    /\ ~queued
    /\ Running # {}
    /\ \A k \in active : bnd[k].timer # 0
    /\ d < MinLeft => ticks < MaxTicks
    /\ ticks' = IF d < MinLeft THEN ticks + 1 ELSE ticks
    /\ bnd' = [k \in active |->
                 [bnd[k] EXCEPT
                    !.timer = IF @ > 0 THEN @ - d ELSE @,
                    !.idle = IF @ < 0 THEN @
                             ELSE IF @ + d > DebounceMs(opts.delay)
                                  THEN DebounceMs(opts.delay) ELSE @ + d]]
    /\ UNCHANGED <<plugin, provided, active, opts, abolish, def, source, oldValue, queued, nchanges>>

\* The debounce timer expires: the wrapped watchFn runs with the arguments
\* of the last invocation.
TimerFire(k) ==
    /\ ~queued
    /\ k \in active
    /\ bnd[k].timer = 0
    /\ bnd' = [bnd EXCEPT ![k] =
                 watchFn(k, [bnd[k] EXCEPT !.timer = NoTimer], bnd[k].timerArg,
                         opts, abolish)]
    /\ UNCHANGED <<plugin, provided, active, opts, abolish, def, source, oldValue, queued, nchanges, ticks>>

\* An engine promise resolves: the .then callback writes the refs.
Resolve(k, i) ==
    /\ k \in active
    /\ i \in bnd[k].inflight
    /\ bnd' = [bnd EXCEPT ![k] =
                 Then(k, [bnd[k] EXCEPT !.inflight = @ \ {i}, !.done = Append(@, i)],
                      EngineOut(k, bnd[k].calls[i].eng, bnd[k].calls[i].arg))]
    /\ UNCHANGED <<plugin, provided, active, opts, abolish, def, source, oldValue, queued, nchanges, ticks>>

\* variant: a catch handler that reports the rejection as a failed validation
Reject_ReportsFailure(k, i) ==
    /\ k \in active
    /\ i \in bnd[k].inflight
    /\ bnd' = [bnd EXCEPT ![k] =
                 [@ EXCEPT !.inflight = @ \ {i},
                           !.error = ValidationError(bnd[k].calls[i].arg),
                           !.result = FALSE]]
    /\ UNCHANGED <<plugin, provided, active, opts, abolish, def, source, oldValue, queued, nchanges, ticks>>

\* An engine promise rejects: there is no catch handler, nothing is written.
Reject(k, i) ==
    /\ k \in active
    /\ i \in bnd[k].inflight
    /\ bnd' = [bnd EXCEPT ![k].inflight = @ \ {i}]
    /\ UNCHANGED <<plugin, provided, active, opts, abolish, def, source, oldValue, queued, nchanges, ticks>>

\* what happens once the binders exist, and the plugin's installation
Step ==
    \/ \E o \in PluginOptions : Install(o)
    \/ \E v \in Values : Set(v)
    \/ Flush
    \/ \E d \in AdvanceSteps : Advance(d)
    \/ \E k \in Kinds : TimerFire(k)
    \/ \E k \in Kinds, i \in 1..(MaxChanges + 1) : Resolve(k, i)
    \/ \E k \in Kinds, i \in 1..(MaxChanges + 1) : Reject(k, i)

\* one binder on its source
Next ==
    \/ (active = {} /\ \E ks \in Singles, o \in Options, d \in Values : Bind(ks, o, d))
    \/ Step

Spec == Init /\ [][Next]_vars

\* Spec with the progress the event loop gives: a queued watcher job is
\* flushed (vue runs it in a microtask), time passes, and a timer that is due
\* expires. Nothing obliges the engine to settle a promise or the caller to
\* change the source.
SpecFair ==
    /\ Spec
    /\ WF_vars(Flush)
    /\ WF_vars(\E d \in AdvanceSteps : Advance(d))
    /\ WF_vars(\E k \in Kinds : TimerFire(k))

\* rCheck and rCheckOnly side by side on one source
NextPair ==
    \/ (active = {} /\ \E ks \in Pairs, o \in Options, d \in Values : Bind(ks, o, d))
    \/ Step

SpecPair == Init /\ [][NextPair]_vars

\* ------------------------------------------------------------ caller writes
\* The refs each binder returns besides the source itself.
Returned(kind) ==
    CASE kind = "vRef" -> {"error", "validated"}
      [] kind = "vReactive" -> {"error", "validated"}
      [] kind = "rCheck" -> {"error", "validated"}
      [] kind = "rCheckOnly" -> {"error"}
      [] kind = "rTest" -> {"result"}

\* Which of them is returned wrapped in readonly(): the error of vRef and of
\* vReactive. Every other one is returned as the ref the binder writes.
ReadOnly(kind, f) == kind \in {"vRef", "vReactive"} /\ f = "error"

\* what a caller assigns to a ref it was given: some value of its own to
\* error or validated, the opposite boolean to rTest's result
CallerValue == <<"caller">>
CallerAssigns(s, f) == IF f = "result" THEN ~s.result ELSE CallerValue

\* `returned.value = v` by the caller: vue's readonly proxy refuses the
\* assignment (a warning, no change), a plain ref takes it.
Assign(kind, s, f, v) ==
    IF ReadOnly(kind, f) THEN s ELSE [s EXCEPT ![f] = v]

CallerWrite(k, f) ==
    /\ k \in active
    /\ f \in Returned(k)
    /\ bnd' = [bnd EXCEPT ![k] = Assign(k, bnd[k], f, CallerAssigns(bnd[k], f))]
    /\ UNCHANGED <<plugin, provided, active, opts, abolish, def, source, oldValue, queued, nchanges, ticks>>

\* one binder on its source, with a caller that also assigns to the refs the
\* binder returned
NextWrite ==
    \/ Next
    \/ \E k \in Kinds, f \in {"error", "validated", "result"} : CallerWrite(k, f)

SpecWrite == Init /\ [][NextWrite]_vars

\* ------------------------------------------------------------------ claims
\* the call whose result was written last, and what the engine returned for it
LastCall(s) == s.calls[s.done[Len(s.done)]]
OutOf(k, c) == EngineOut(k, c.eng, c.arg)
Last(q) == q[Len(q)]

\* C1: vRef, synchronous: once a validation run whose check reported no error
\* has completed, error is undefined and validated is the transformed value
\* that same check returned.
C1_PassWritesBoth ==
    ("vRef" \in active /\ ~opts.async /\ bnd["vRef"].done # <<>>) =>
        LET s == bnd["vRef"]
            out == EngineCheck(LastCall(s).eng, LastCall(s).arg)
        IN  ~Truthy(out[1]) => (s.error = Undefined /\ s.validated = out[2])

\* a second run has passed and validated holds the transformed current value
C1_Witness ==
    /\ "vRef" \in active /\ ~opts.async
    /\ Len(bnd["vRef"].done) >= 2
    /\ bnd["vRef"].error = Undefined
    /\ bnd["vRef"].validated = Transformed(source)
    /\ source # def

\* C2: vRef, synchronous: a validation run whose check reports an error
\* leaves error holding that error and validated exactly as it was before
\* the run (the ref's initial value when the run is the one at creation).
C2_FailKeepsValidated ==
    [][("vRef" \in active' /\ ~opts'.async) =>
           LET s == IF "vRef" \in active THEN bnd["vRef"] ELSE NewBinder("vRef", def')
               t == bnd'["vRef"]
           IN  (Len(t.done) = Len(s.done) + 1 /\ Truthy(OutOf("vRef", LastCall(t))[1]))
               => /\ t.error = OutOf("vRef", LastCall(t))[1]
                  /\ t.validated = s.validated
      ]_vars

\* the initial value passed, then a failing value was set: error is populated
\* and validated is still the transformed initial value
C2_Witness ==
    /\ "vRef" \in active /\ ~opts.async
    /\ Len(bnd["vRef"].done) = 2
    /\ bnd["vRef"].error = ValidationError(source)
    /\ bnd["vRef"].validated = Transformed(def)
    /\ source # def

\* C3: vReactive, synchronous or asynchronous: after every completed
\* validation attempt validated is what the engine returned for that attempt,
\* also when it reported an error.
C3_ValidatedIsLastResult ==
    ("vReactive" \in active /\ bnd["vReactive"].done # <<>>) =>
        bnd["vReactive"].validated =
            EngineCheck(LastCall(bnd["vReactive"]).eng, LastCall(bnd["vReactive"]).arg)[2]

\* an attempt passed, a later one failed and validated holds the failed
\* attempt's partial result
C3_Witness ==
    /\ "vReactive" \in active
    /\ Len(bnd["vReactive"].done) >= 2
    /\ bnd["vReactive"].error = ValidationError(source)
    /\ bnd["vReactive"].validated = Partial(source)

\* the invocations of one burst: the first comes after a gap of at least the
\* delay (or is the first ever), every other one less than the delay after
\* the one before it
BurstShape(ns) == ns # <<>> => (~ns[1].near /\ \A j \in 2..Len(ns) : ns[j].near)

\* C4: with options.delay set, every engine call answers exactly one burst
\* of callback invocations (gaps shorter than the delay) and is made with the
\* value of the last invocation of the burst; no call is made inside a burst.
C4_DebounceOneCallLastValue ==
    \A k \in active : DelayTruthy(opts.delay) =>
        LET s == bnd[k]
        IN  /\ \A i \in 1..Len(s.calls) :
                   /\ s.calls[i].notifs # <<>>
                   /\ BurstShape(s.calls[i].notifs)
                   /\ s.calls[i].arg = Last(s.calls[i].notifs).val
            /\ BurstShape(s.burst)
            /\ (s.burst # <<>>) <=> (s.timer >= 0)

\* a burst of two invocations with different values was answered by one call
C4_Witness ==
    \E k \in active :
        /\ DelayTruthy(opts.delay)
        /\ Len(bnd[k].calls) = 1
        /\ Len(bnd[k].calls[1].notifs) = 2
        /\ bnd[k].calls[1].notifs[1].val # bnd[k].calls[1].arg
        /\ bnd[k].timer = NoTimer

\* the refs hold the outcome of call c, under binder k's write rule
Reflects(k, s, c) ==
    CASE k = "rTest" -> s.result = OutOf(k, c)
      [] k = "rCheckOnly" -> s.error = NormErr(OutOf(k, c)[1])
      [] k = "vRef" -> /\ s.error = NormErr(OutOf(k, c)[1])
                       /\ ~Truthy(OutOf(k, c)[1]) => s.validated = OutOf(k, c)[2]
      [] OTHER -> /\ s.error = NormErr(OutOf(k, c)[1])
                  /\ s.validated = OutOf(k, c)[2]

\* C5: asynchronous, no debounce: the refs reflect the call that resolved
\* last, whatever the order in which the calls were started.
C5_LastResolvedWins ==
    \A k \in active :
        (opts.async /\ ~DelayTruthy(opts.delay) /\ bnd[k].done # <<>>) =>
            Reflects(k, bnd[k], LastCall(bnd[k]))

\* call 1 (A) was started before call 2 (B), B resolved first, both have
\* resolved, their verdicts differ and error is A's
C5_Witness ==
    \E k \in active \ {"rTest"} :
        /\ opts.async /\ ~DelayTruthy(opts.delay)
        /\ bnd[k].done = <<2, 1>>
        /\ bnd[k].inflight = {}
        /\ bnd[k].error = NormErr(OutOf(k, bnd[k].calls[1])[1])
        /\ bnd[k].error # NormErr(OutOf(k, bnd[k].calls[2])[1])

\* C6: with immediate === false, from creation until the first change of the
\* bound value no engine call is made or scheduled and the refs keep their
\* initial values.
C6_ImmediateOffNoCall ==
    \A k \in active :
        (opts.immediate = "false" /\ nchanges = 0) =>
            /\ bnd[k] = NewBinder(k, def)
            /\ source = def

C6_Witness ==
    /\ active # {}
    /\ opts.immediate = "false"
    /\ nchanges = 0

\* C7 as stated: with immediate unset or true the engine has been called with
\* the initial value as soon as the binder exists, with or without a delay.
C7_ImmediateCallAtCreation ==
    \A k \in active :
        Immediate(opts) => (bnd[k].calls # <<>> /\ bnd[k].calls[1].arg = def)

\* C7 as amended: with immediate unset or true the watcher's callback is
\* invoked with the initial value at creation. Without a delay that is the
\* engine call. With a delay the invocation opens the first debounce burst:
\* no call is made until the timer expires, and the first call answers the
\* burst the initial value belongs to.
C7_ImmediateInvokesCallback ==
    \A k \in active :
        Immediate(opts) =>
            IF DelayTruthy(opts.delay)
            THEN /\ bnd[k].calls = <<>> =>
                       /\ bnd[k].timer >= 0
                       /\ bnd[k].burst # <<>>
                       /\ bnd[k].burst[1].val = def
                 /\ bnd[k].calls # <<>> => bnd[k].calls[1].notifs[1].val = def
            ELSE bnd[k].calls # <<>> /\ bnd[k].calls[1].arg = def

\* debounced: the first engine call was made with a later value, the initial
\* value never reached the engine
C7_Witness ==
    \E k \in active :
        /\ Immediate(opts) /\ DelayTruthy(opts.delay)
        /\ bnd[k].calls # <<>>
        /\ \A i \in 1..Len(bnd[k].calls) : bnd[k].calls[i].arg # def

\* C8: the handle is resolved as options.Abolish, else the provided one, else
\* the Abolish class, and every engine call of the binder is made on it.
C8_CallsOnResolvedEngine ==
    \A k \in active :
        /\ abolish = ResolveEngine(opts, provided)
        /\ \A i \in 1..Len(bnd[k].calls) : bnd[k].calls[i].eng = abolish

\* C9: rCheck and rCheckOnly on one source with the same options: after the
\* same calls have completed in the same order, the two error refs are equal.
C9_SameErrorAsRCheck ==
    ( /\ {"rCheck", "rCheckOnly"} \subseteq active
      /\ bnd["rCheck"].done = bnd["rCheckOnly"].done
      /\ \A i \in 1..Len(bnd["rCheck"].done) :
             bnd["rCheck"].calls[bnd["rCheck"].done[i]].arg
                 = bnd["rCheckOnly"].calls[bnd["rCheckOnly"].done[i]].arg )
    => bnd["rCheck"].error = bnd["rCheckOnly"].error

\* C10: rCheck: after any completed call error is the returned error (or
\* undefined) and validated is the value the engine returned for that call,
\* also when the call reported an error.
C10_RCheckWritesBoth ==
    ("rCheck" \in active /\ bnd["rCheck"].done # <<>>) =>
        LET out == EngineCheck(LastCall(bnd["rCheck"]).eng, LastCall(bnd["rCheck"]).arg)
        IN  /\ bnd["rCheck"].error = NormErr(out[1])
            /\ bnd["rCheck"].validated = out[2]

\* a passing call was followed by a failing one: validated is overwritten
\* with the failing call's result
C10_Witness ==
    /\ "rCheck" \in active
    /\ Len(bnd["rCheck"].done) >= 2
    /\ bnd["rCheck"].error = ValidationError(source)
    /\ bnd["rCheck"].validated = Partial(source)

\* C11: rTest: result is true from creation until the first test completes
\* (immediate off, a debounce window pending, a testAsync in flight), and
\* after any completed test it is the boolean the most recently completed
\* test / testAsync call returned.
C11_RTestResult ==
    "rTest" \in active =>
        LET s == bnd["rTest"]
        IN  IF s.done = <<>>
            THEN s.result = TRUE
            ELSE s.result = EngineTest(LastCall(s).eng, LastCall(s).arg)

\* the first test failed, the second passed and result is true again
C11_Witness ==
    /\ "rTest" \in active
    /\ Len(bnd["rTest"].done) = 2
    /\ ~OutOf("rTest", bnd["rTest"].calls[bnd["rTest"].done[1]])
    /\ bnd["rTest"].result = TRUE

\* a testAsync is in flight, nothing has completed and result is still true
C11_WitnessPending ==
    /\ "rTest" \in active
    /\ bnd["rTest"].inflight # {}
    /\ bnd["rTest"].done = <<>>
    /\ bnd["rTest"].result = TRUE

\* C12: in every binder with an error ref, once a validation has completed
\* error is populated exactly when the validation completed last reported an
\* error and undefined exactly when it reported none; the engine's falsy
\* error slot is never stored; a synchronous validation that fails still
\* completes inside the callback (the call is written, nothing is thrown).
C12_ErrorIffLastFailed ==
    \A k \in active \ {"rTest"} :
        LET s == bnd[k]
        IN  /\ s.error # NoError
            /\ s.done # <<>> =>
                   /\ (s.error # Undefined) <=> Truthy(OutOf(k, LastCall(s))[1])
                   /\ Truthy(OutOf(k, LastCall(s))[1]) => s.error = OutOf(k, LastCall(s))[1]
            /\ ~opts.async => s.done = [i \in 1..Len(s.calls) |-> i]

\* a validation failed, the next one passed and error is undefined again
C12_Witness ==
    \E k \in active \ {"rTest"} :
        /\ Len(bnd[k].done) = 2
        /\ Truthy(OutOf(k, bnd[k].calls[bnd[k].done[1]])[1])
        /\ ~Truthy(OutOf(k, LastCall(bnd[k]))[1])
        /\ bnd[k].error = Undefined

\* where install called `op`, as positions in its log
CalledAt(op) == {i \in 1..Len(plugin.log) : plugin.log[i][1] = op}
ObtainedAt == CalledAt("options.abolish") \cup CalledAt("new Abolish")

\* C13: AbolishPlugin.install: a given init is called exactly once (an absent
\* one never) and before the engine is obtained; the engine is obtained once,
\* from options.abolish() when given and from new Abolish() otherwise; an
\* install that returns has called provide exactly once, after that, with
\* the key "abolish" and the instance it obtained, and no install calls
\* provide more than once.
C13_InstallOrder ==
    plugin # NotInstalled =>
        /\ Cardinality(CalledAt("init")) = (IF plugin.options.init = "absent" THEN 0 ELSE 1)
        /\ \A i \in CalledAt("init"), j \in ObtainedAt \cup CalledAt("provide") : i < j
        /\ Cardinality(ObtainedAt) <= 1
        /\ Cardinality(CalledAt("provide")) <= 1
        /\ CalledAt(IF plugin.options.abolish = "absent"
                    THEN "options.abolish" ELSE "new Abolish") = {}
        /\ ~plugin.raised =>
               /\ Cardinality(ObtainedAt) = 1
               /\ Cardinality(CalledAt("provide")) = 1
               /\ \A i \in ObtainedAt, j \in CalledAt("provide") :
                      /\ i < j
                      /\ plugin.log[j][2] = plugin.log[i][2]
                      /\ provided = plugin.log[i][2]

\* installed with init and a factory; a binder set up afterwards validates
\* with the factory's engine
C13_Witness ==
    /\ plugin.options = [init |-> "returns", abolish |-> "returns"]
    /\ plugin.log = <<<<"init">>, <<"options.abolish", "factory">>, <<"provide", "factory">>>>
    /\ \E k \in active : bnd[k].calls # <<>> /\ bnd[k].calls[1].eng = "factory"

\* C14 as stated: whatever the options, also with an init or a factory that
\* raises, install returns and an engine is provided under "abolish".
C14_InstallNeverFails ==
    plugin # NotInstalled => (~plugin.raised /\ provided # "none")

\* C14 as amended: install returns and provides an engine exactly when init
\* and the factory (those given) return; it catches nothing, so when init
\* raises, or init returns and the factory raises, the exception leaves
\* install, provide is not called and nothing is provided; after an init
\* that raised the factory is not called.
C14_InstallFailsOnlyThroughCallbacks ==
    plugin # NotInstalled =>
        /\ plugin.raised <=>
               (plugin.options.init = "raises" \/ plugin.options.abolish = "raises")
        /\ plugin.raised => (provided = "none" /\ CalledAt("provide") = {})
        /\ plugin.options.init = "raises" => ObtainedAt = {}
        /\ ~plugin.raised =>
               /\ provided = (IF plugin.options.abolish = "absent"
                              THEN "instance" ELSE "factory")
               /\ CalledAt("provide") # {}

\* init returned, the factory raised: install was left by the exception
\* after both calls and nothing is provided
C14_Witness ==
    /\ plugin.options = [init |-> "returns", abolish |-> "raises"]
    /\ plugin.raised
    /\ plugin.log = <<<<"init">>, <<"options.abolish", "factory">>>>
    /\ provided = "none"

\* C15: a dispatched asynchronous call leaves the set of calls in flight in
\* two ways only: it resolves, and then its result is written to the refs in
\* that step, whatever timer is pending and whatever other calls are in
\* flight; or the engine rejects it, a step that touches nothing else. No
\* change of the source, flush, timer restart or timer expiry removes it.
C15_NoCancellation ==
    [][\A k \in active : \A i \in bnd[k].inflight :
           \/ i \in bnd'[k].inflight
           \/ /\ bnd'[k].done = Append(bnd[k].done, i)
              /\ Reflects(k, bnd'[k], bnd[k].calls[i])
              /\ bnd'[k].timer = bnd[k].timer
           \/ /\ bnd'[k] = [bnd[k] EXCEPT !.inflight = @ \ {i}]
              /\ UNCHANGED <<source, oldValue, queued>>
      ]_vars

\* debounced and asynchronous: call 1 was in flight during the whole window
\* that led to call 2 and while call 2 was in flight; it resolved last and
\* its result was written
C15_Witness ==
    \E k \in active :
        /\ opts.async /\ DelayTruthy(opts.delay)
        /\ bnd[k].done = <<2, 1>>
        /\ bnd[k].calls[2].notifs # <<>>
        /\ Reflects(k, bnd[k], bnd[k].calls[1])
        /\ OutOf(k, bnd[k].calls[1]) # OutOf(k, bnd[k].calls[2])

\* a call is in flight while a later change waits in a debounce window
C15_WitnessPending ==
    \E k \in active :
        /\ opts.async /\ DelayTruthy(opts.delay)
        /\ bnd[k].inflight = {1}
        /\ bnd[k].timer > 0
        /\ bnd[k].timerArg # bnd[k].calls[1].arg

\* C16: synchronous and undebounced: every notification is answered inside
\* its own delivery, so the k-th call checks the value of the k-th
\* notification and is the k-th write; nothing is ever in flight or waiting,
\* the writes are in the order of the notifications and the refs hold the
\* outcome for the last notification delivered (the value the watcher saw
\* last).
C16_SyncWritesFollowNotifications ==
    \A k \in active :
        (~opts.async /\ ~DelayTruthy(opts.delay)) =>
            LET s == bnd[k]
            IN  /\ s.inflight = {} /\ s.burst = <<>> /\ s.timer = NoTimer
                /\ s.done = [i \in 1..Len(s.calls) |-> i]
                /\ \A i \in 1..Len(s.calls) :
                       /\ Len(s.calls[i].notifs) = 1
                       /\ s.calls[i].arg = s.calls[i].notifs[1].val
                /\ s.calls # <<>> =>
                       /\ Reflects(k, s, Last(s.calls))
                       /\ Last(s.calls).arg = oldValue

\* two notifications with different verdicts were delivered; the refs hold
\* the second one's
C16_Witness ==
    \E k \in active :
        /\ ~opts.async /\ ~DelayTruthy(opts.delay)
        /\ bnd[k].done = <<1, 2>>
        /\ bnd[k].calls[1].arg = def
        /\ bnd[k].calls[2].arg = source
        /\ OutOf(k, bnd[k].calls[1]) # OutOf(k, bnd[k].calls[2])
        /\ Reflects(k, bnd[k], bnd[k].calls[2])

\* the completed calls of s that reported no error, as positions in s.done
PassedAt(k, s) == {j \in 1..Len(s.done) : ~Truthy(OutOf(k, s.calls[s.done[j]])[1])}
LastPassed(k, s) ==
    s.calls[s.done[CHOOSE j \in PassedAt(k, s) : \A i \in PassedAt(k, s) : i <= j]]

\* C17 as stated: in every state vRef's validated is the transformed value of
\* the most recent successful validation, never a value that did not come
\* out of a successful check.
C17_ValidatedAlwaysFromCheck ==
    "vRef" \in active =>
        /\ PassedAt("vRef", bnd["vRef"]) # {}
        /\ bnd["vRef"].validated = OutOf("vRef", LastPassed("vRef", bnd["vRef"]))[2]

\* C17 as amended: vRef's validated holds the initial value def as passed,
\* unvalidated, until a validation that reports no error completes (so also
\* when the initial value fails, with immediate off, while the first call is
\* pending); from then on it holds the transformed value of the successful
\* validation completed last, also after later failures.
C17_ValidatedInitialThenLastPassed ==
    "vRef" \in active =>
        IF PassedAt("vRef", bnd["vRef"]) = {}
        THEN bnd["vRef"].validated = Raw(def)
        ELSE bnd["vRef"].validated = OutOf("vRef", LastPassed("vRef", bnd["vRef"]))[2]

\* validations have completed, all of them failed: validated is still the
\* unvalidated initial value
C17_Witness ==
    /\ "vRef" \in active
    /\ bnd["vRef"].done # <<>>
    /\ PassedAt("vRef", bnd["vRef"]) = {}
    /\ bnd["vRef"].error # Undefined
    /\ bnd["vRef"].validated = Raw(def)

\* a validation passed, a later one failed: validated is the earlier one's
\* transformed value
C17_WitnessStale ==
    /\ "vRef" \in active
    /\ PassedAt("vRef", bnd["vRef"]) = {1}
    /\ Len(bnd["vRef"].done) = 2
    /\ bnd["vRef"].validated = Transformed(bnd["vRef"].calls[bnd["vRef"].done[1]].arg)

\* C18: the refs the caller gets from rCheck (error, validated), rCheckOnly
\* (error) and rTest (result), and the error of vRef and vReactive, never
\* hold a value the caller assigned: only the binder's callback writes them
\* (result is true or what the test completed last returned).
C18_OutputsReadOnly ==
    \A k \in active :
        /\ bnd[k].error # CallerValue
        /\ k = "rCheck" => bnd[k].validated # CallerValue
        /\ k = "rTest" =>
               bnd[k].result = (bnd[k].done = <<>> \/ OutOf(k, LastCall(bnd[k])))

\* C19: a step in which an asynchronous call leaves the calls in flight
\* without a result being written (the engine rejected it) changes none of
\* error, validated and result, and leaves the watcher as it was: the source,
\* the queued job, the pending timer and the other calls in flight, so later
\* changes are validated as before.
C19_RejectionWritesNothing ==
    [][\A k \in active : \A i \in bnd[k].inflight :
           (i \notin bnd'[k].inflight /\ bnd'[k].done = bnd[k].done) =>
               /\ bnd'[k].error = bnd[k].error
               /\ bnd'[k].validated = bnd[k].validated
               /\ bnd'[k].result = bnd[k].result
               /\ bnd'[k].inflight = bnd[k].inflight \ {i}
               /\ bnd'[k].timer = bnd[k].timer
               /\ bnd'[k].calls = bnd[k].calls
               /\ UNCHANGED <<source, oldValue, queued>>
      ]_vars

\* call 1 was rejected; the change that followed was validated by call 2,
\* whose result is in the refs
C19_Witness ==
    \E k \in active :
        /\ opts.async
        /\ Len(bnd[k].calls) = 2
        /\ bnd[k].done = <<2>>
        /\ bnd[k].inflight = {}
        /\ Reflects(k, bnd[k], bnd[k].calls[2])
        /\ bnd[k].calls[2].arg = source

\* call 1 reported an error, call 2 (a value that passes) was rejected: the
\* stale error remains
C19_WitnessStale ==
    \E k \in active \ {"rTest"} :
        /\ opts.async
        /\ Len(bnd[k].calls) = 2
        /\ bnd[k].done = <<1>>
        /\ bnd[k].inflight = {}
        /\ ~Truthy(OutOf(k, bnd[k].calls[2])[1])
        /\ bnd[k].error = OutOf(k, bnd[k].calls[1])[1]
        /\ Truthy(bnd[k].error)

\* C20: with options.delay absent or 0 the binder never has a timer: every
\* callback invocation is answered by its own engine call at once. With
\* delay true or a positive number every invocation starts the timer and no
\* call is made before it expires; the time left on a pending timer plus the
\* time since the invocation that started it is the window: 1000 for true,
\* the number itself otherwise.
C20_DebounceConfiguration ==
    \A k \in active :
        LET s == bnd[k]
            window == IF opts.delay = DelayTrue THEN 1000 ELSE opts.delay.n
        IN  IF opts.delay = Absent \/ opts.delay = DelayNum(0)
            THEN /\ s.timer = NoTimer /\ s.burst = <<>>
                 /\ \A i \in 1..Len(s.calls) : Len(s.calls[i].notifs) = 1
            ELSE /\ s.timer >= 0 <=> s.burst # <<>>
                 /\ s.timer >= 0 => s.timer + s.idle = window
                 /\ (s.calls = <<>> /\ s.idle >= 0) => s.timer >= 0
                 /\ (s.timer = NoTimer /\ s.idle >= 0) => s.idle = window

\* delay: true, and the one call was made when 1000 time units had passed
\* since the invocation it answers
C20_Witness ==
    \E k \in active :
        /\ opts.delay = DelayTrue
        /\ Len(bnd[k].calls) = 1
        /\ bnd[k].timer = NoTimer
        /\ bnd[k].idle = 1000

\* delay: 0 and a change was validated at once
C20_WitnessZero ==
    \E k \in active :
        /\ opts.delay = DelayNum(0)
        /\ bnd[k].done = <<1, 2>>

\* a numeric delay with the timer part-way through its window
C20_WitnessNumber ==
    \E k \in active :
        /\ opts.delay = DelayNum(ShortDelay)
        /\ bnd[k].timer > 0
        /\ bnd[k].idle > 0

\* error and validated of s are the two slots of one completed call
Paired(k, s) ==
    \E j \in 1..Len(s.done) :
        /\ s.error = NormErr(OutOf(k, s.calls[s.done[j]])[1])
        /\ s.validated = OutOf(k, s.calls[s.done[j]])[2]

\* C21: rCheck and vReactive, synchronous or asynchronous, debounced or not:
\* in every state after the first completed validation, error and validated
\* are the error slot and the result slot of one and the same completed
\* engine call. (vRef is not bound by this: C21_WitnessVRefUnpaired.)
C21_ErrorAndValidatedPaired ==
    \A k \in active \cap {"rCheck", "vReactive"} :
        bnd[k].done # <<>> => Paired(k, bnd[k])

\* asynchronous: two calls with different verdicts resolved in the reverse
\* order and both refs are those of the call that resolved last
C21_Witness ==
    \E k \in active \cap {"rCheck", "vReactive"} :
        /\ opts.async
        /\ bnd[k].done = <<2, 1>>
        /\ OutOf(k, bnd[k].calls[1]) # OutOf(k, bnd[k].calls[2])
        /\ bnd[k].error = NormErr(OutOf(k, bnd[k].calls[1])[1])
        /\ bnd[k].validated = OutOf(k, bnd[k].calls[1])[2]

\* vRef after a pass and then a failure: error is the later call's and
\* validated the earlier call's, no completed call gave both
C21_WitnessVRefUnpaired ==
    /\ "vRef" \in active
    /\ Len(bnd["vRef"].done) = 2
    /\ bnd["vRef"].error = OutOf("vRef", LastCall(bnd["vRef"]))[1]
    /\ bnd["vRef"].validated = OutOf("vRef", bnd["vRef"].calls[bnd["vRef"].done[1]])[2]
    /\ ~Paired("vRef", bnd["vRef"])

\* binder k has been triggered at least once and nothing is left to happen:
\* no watcher job queued, no debounce timer pending
Settled(k) == bnd[k].idle >= 0 /\ ~queued /\ bnd[k].timer = NoTimer

\* a synchronous binder that has been triggered comes to rest
Triggered(k) == k \in active /\ ~opts.async /\ bnd[k].idle >= 0
SettlesEventually == \A k \in Kinds : [](Triggered(k) => <>(k \in active /\ Settled(k)))

\* C22: async unset: once a validation has been triggered and the changes
\* have stopped, the state the binder comes to rest in (at once without a
\* delay, when the timer has expired with one) has error equal to the
\* verdict of the binder's engine on the current value of the source.
C22_SyncSettlesOnCurrentValue ==
    \A k \in active \ {"rTest"} :
        (~opts.async /\ Settled(k)) =>
            bnd[k].error = NormErr(EngineCheck(abolish, source)[1])

\* C23: vRef, synchronous or asynchronous, any order of resolutions: in
\* every state validated is the initial value def as passed or the result
\* slot of some completed call that reported no error; the result slot of a
\* call that reported an error is never in validated.
C23_ValidatedDefOrPassedResult ==
    "vRef" \in active =>
        LET s == bnd["vRef"]
        IN  /\ \/ s.validated = Raw(def)
               \/ \E j \in PassedAt("vRef", s) :
                      s.validated = OutOf("vRef", s.calls[s.done[j]])[2]
            /\ \A i \in 1..Len(s.calls) :
                   Truthy(OutOf("vRef", s.calls[i])[1]) =>
                       s.validated # OutOf("vRef", s.calls[i])[2]

\* asynchronous: the second call passed and resolved first, the first call
\* failed and resolved last; validated is the second call's result
C23_Witness ==
    /\ "vRef" \in active /\ opts.async
    /\ bnd["vRef"].done = <<2, 1>>
    /\ Truthy(OutOf("vRef", bnd["vRef"].calls[1])[1])
    /\ bnd["vRef"].error = OutOf("vRef", bnd["vRef"].calls[1])[1]
    /\ bnd["vRef"].validated = Transformed(bnd["vRef"].calls[2].arg)

====
